---- MODULE Spec2Model ----
(***************************************************************************)
(* A model of quantum-launcher's main(): manifest resolution, conditional  *)
(* acquisition of libraries and assets, classpath construction and launch. *)
(*                                                                         *)
(* Strings are sequences of tokens.  The tokens "/" and "\\" are the path  *)
(* separator characters; every other token is a run of characters that     *)
(* holds no separator.  Concatenation of std::string is \o.                *)
(* A file system path is the sequence of its components, and a component   *)
(* is the sequence of the tokens between two separators.                   *)
(***************************************************************************)
EXTENDS Naturals, Sequences, FiniteSets, TLC

(* ------------------------------ bounds --------------------------------- *)
MaxLibs == 2
MaxRuns == 2
MaxFailures == 1

VARIABLES
    os,                \* the compile-time platform constant
    server,            \* what the remote endpoints serve
    world,             \* the file system, and the ordered record of effects
    run,               \* number of the current run of main()
    lastExit,          \* how the previous run ended, "none" in the first run
    failures,          \* transport failures so far
    pc,                \* position of main()
    crash,             \* how the run died, "none" while it has not
    nullDeref,         \* the Null document whose field was dereferenced
    programDirectory,
    fetchOk,           \* documentString != ""
    document,
    versionJson,
    assetJson,
    latestVersion,
    i,                 \* index of the library loop (1-based)
    allowed,
    classPath,
    gameArgs,
    cmdJava,
    finalCommand,
    child              \* the spawned process: "none", "running", "exited", "failed"

launch == << gameArgs, cmdJava, finalCommand, child >>

\* one call of replacePlaceholders made on its own: its three arguments,
\* and the string it returned
VARIABLE call

vars == << os, server, world, run, lastExit, failures, pc, crash, nullDeref, programDirectory,
           fetchOk, document, versionJson, assetJson, latestVersion, i,
           allowed, classPath, gameArgs, cmdJava, finalCommand, child, call >>

(* ------------------------------ strings -------------------------------- *)
version == << "1.19.4" >>
ManifestUrl == << "https:", "/", "/", "launchermeta.mojang.com", "/", "mc", "/",
                  "game", "/", "version_manifest.json" >>
ResourcesUrl == << "https:", "/", "/", "resources.download.minecraft.net", "/" >>
Home == << "/", "home" >>

RECURSIVE backslashesToForwardslashes(_)
backslashesToForwardslashes(input) ==
    IF input = << >> THEN << >>
    ELSE << IF Head(input) = "\\" THEN "/" ELSE Head(input) >>
         \o backslashesToForwardslashes(Tail(input))

escapeColon(input) == input

(* ----------------------------- file system ----------------------------- *)
IsSeparator(t) == t = "/" \/ (os = "windows" /\ t = "\\")

RECURSIVE SplitPath(_, _, _)
SplitPath(s, cur, acc) ==
    IF s = << >> THEN (IF cur = << >> THEN acc ELSE Append(acc, cur))
    ELSE IF IsSeparator(Head(s))
         THEN SplitPath(Tail(s), << >>, IF cur = << >> THEN acc ELSE Append(acc, cur))
         ELSE SplitPath(Tail(s), Append(cur, Head(s)), acc)

\* the file system object a path string names
Resolve(s) == SplitPath(s, << >>, << >>)

Parent(p) == SubSeq(p, 1, Len(p) - 1)
Prefixes(p) == { SubSeq(p, 1, k) : k \in 0..Len(p) }

Exists(w, s) == Resolve(s) \in w.dirs \/ Resolve(s) \in DOMAIN w.files

DirectoryExists(w, directoryPath) == Resolve(directoryPath) \in w.dirs

FileExists(w, filePath) == Resolve(filePath) \in DOMAIN w.files

Event(op, arg) == [op |-> op, arg |-> arg]

\* std::filesystem::create_directories throws when a prefix is a regular file
CreateDirectoryIfNotExists(w, directoryPath) ==
    LET p == Resolve(directoryPath) IN
    IF w.err THEN w
    ELSE IF p \in w.dirs
    THEN [w EXCEPT !.log = Append(@, Event("mkdir", p))]
    ELSE IF \E q \in Prefixes(p) : q \in DOMAIN w.files
    THEN [w EXCEPT !.err = TRUE]
    ELSE [w EXCEPT !.dirs = @ \cup Prefixes(p),
                   !.log = Append(@, Event("mkdir", p))]

\* opening an output stream creates or truncates the file; it fails when the
\* parent directory is missing or the path names a directory
CanOpen(w, p) == p # << >> /\ Parent(p) \in w.dirs /\ p \notin w.dirs

PutFile(w, p, c) == [q \in DOMAIN w.files \cup {p} |-> IF q = p THEN c ELSE w.files[q]]

CreateFileIfNotExists(w, filePath) ==
    LET p == Resolve(filePath) IN
    IF w.err \/ p \in DOMAIN w.files THEN w
    ELSE IF CanOpen(w, p)
    THEN [w EXCEPT !.files = PutFile(w, p, ""),
                   !.log = Append(@, Event("create", p))]
    ELSE [w EXCEPT !.log = Append(@, Event("create", p))]

saveStringToFile(w, savedString, stringSavePath) ==
    LET p == Resolve(stringSavePath) IN
    IF w.err THEN w
    ELSE IF CanOpen(w, p)
    THEN [w EXCEPT !.files = PutFile(w, p, savedString),
                   !.log = Append(@, Event("write", p))]
    ELSE [w EXCEPT !.log = Append(@, Event("write", p))]

\* the file holds the serialised text ("null" for a Null document); the
\* document that text parses back to is kept in world.json under the same path
saveJsonToFile(w, savedJson, jsonSavePath) ==
    LET p == Resolve(jsonSavePath)
        w1 == CreateFileIfNotExists(w, jsonSavePath)
    IN  IF w1.err THEN w1
        ELSE IF CanOpen(w1, p)
        THEN [w1 EXCEPT !.files = PutFile(w1, p, IF savedJson.null THEN "null" ELSE "json"),
                        !.json = [q \in DOMAIN w1.json \cup {p} |->
                                     IF q = p THEN savedJson ELSE w1.json[q]],
                        !.log = Append(@, Event("write", p))]
        ELSE [w1 EXCEPT !.log = Append(@, Event("write", p))]

\* readFileContents: "" when the file cannot be opened
readFileContents(w, filePath) ==
    IF FileExists(w, filePath) THEN w.files[Resolve(filePath)] ELSE ""

\* curlGet: the request is issued and recorded; `ok` is the transport's outcome
curlGet(w, curlurl) ==
    IF w.err THEN w ELSE [w EXCEPT !.log = Append(@, Event("fetch", curlurl))]

(* ------------------------------ documents ------------------------------ *)
\* a default-constructed or failed-to-parse rapidjson::Document is Null
NullManifest == [null |-> TRUE, latest |-> << >>, versions |-> << >>]

NullAssetJson == [null |-> TRUE, objects |-> << >>]

NullVersionJson ==
    [null |-> TRUE, assets |-> << >>, assetIndex |-> [id |-> << >>, url |-> << >>],
     libraries |-> << >>,
     logging |-> [id |-> << >>, url |-> << >>, argument |-> << >>],
     clientUrl |-> << >>, mainClass |-> << >>,
     hasMinecraftArguments |-> FALSE, minecraftArguments |-> << >>,
     hasArguments |-> FALSE, arguments |-> [game |-> << >>]]

\* Document::Parse of a file's text
ParseFile(w, filePath, nullDoc) ==
    IF readFileContents(w, filePath) = "json" THEN w.json[Resolve(filePath)] ELSE nullDoc

(* ---------------------------- remote content --------------------------- *)
DescriptorUrl == << "https:", "/", "/", "piston-meta", "/", "1.19.4.json" >>
OtherUrl == << "https:", "/", "/", "piston-meta", "/", "1.19.3.json" >>

VersionRef(id, url) == [id |-> id, url |-> url]

Manifests ==
    { [null |-> FALSE, latest |-> version, versions |-> vs] :
        vs \in { << VersionRef(<< "1.19.3" >>, OtherUrl), VersionRef(version, DescriptorUrl) >>,
                 << VersionRef(<< "1.19.3" >>, OtherUrl) >> } }

LibraryPaths == { << "a", "/", "A.jar" >>, << "b", "/", "B.jar" >> }

Library(path, hasRules, rules) ==
    [path |-> path, url |-> << "https:", "/", "/", "libraries", "/" >> \o path,
     hasRules |-> hasRules, rules |-> rules]

\* a rule is the platform name it records; on either platform the pool holds
\* a library whose first rule matches and one whose first rule does not
LibraryPool ==
    { Library(<< "a", "/", "A.jar" >>, FALSE, << >>),
      Library(<< "null" >>, FALSE, << >>),
      Library(<< "a", "/", "A.jar" >>, TRUE, << "linux" >>),
      Library(<< "b", "/", "B.jar" >>, TRUE, << "windows", "linux" >>) }

\* the sequences of up to n different elements of S
SeqsUpTo(S, n) ==
    { q \in UNION { [1..k -> S] : k \in 0..n } :
        \A j, k \in DOMAIN q : j # k => q[j] # q[k] }

\* a hash is the sequence of its two-character units
AssetIndexes ==
    { [null |-> FALSE, objects |-> << [name |-> "icon", hash |-> << "aa", "11" >>] >>] }

Plain(string) == [isObject |-> FALSE, string |-> string]
Conditional == [isObject |-> TRUE, string |-> << >>]

\* arguments.game of the 1.19.4 descriptor, shortened
StructuredGame ==
    << Plain(<< "--username" >>), Plain(<< "$", "{", "auth_player_name", "}" >>),
       Plain(<< "--assetIndex" >>), Plain(<< "$", "{", "assets_index_name", "}" >>),
       Conditional >>

\* minecraftArguments of a descriptor older than 1.13, shortened
LegacyGame ==
    << "--username", " ", "$", "{", "auth_player_name", "}", " ",
       "--assetIndex", " ", "$", "{", "assets_index_name", "}" >>

Descriptor(libs, legacy) ==
      [null |-> FALSE, assets |-> << "3" >>,
       assetIndex |-> [id |-> << "3" >>,
                       url |-> << "https:", "/", "/", "piston-meta", "/", "3.json" >>],
       libraries |-> libs,
       logging |-> [id |-> << "client-1.12.xml" >>,
                    url |-> << "https:", "/", "/", "piston-data", "/", "client-1.12.xml" >>,
                    argument |-> << "-Dlog4j.configurationFile=", "$", "{", "path", "}" >>],
       clientUrl |-> << "https:", "/", "/", "piston-data", "/", "client.jar" >>,
       mainClass |-> << "net.minecraft.client.main.Main" >>,
       hasMinecraftArguments |-> legacy,
       minecraftArguments |-> IF legacy THEN LegacyGame ELSE << >>,
       hasArguments |-> ~legacy,
       arguments |-> [game |-> IF legacy THEN << >> ELSE StructuredGame]]

\* the descriptors the server may hold: the structured form with every
\* library list, and one of the legacy form
Descriptors ==
    { Descriptor(libs, FALSE) : libs \in SeqsUpTo(LibraryPool, MaxLibs) }
    \cup { Descriptor(<< Library(<< "a", "/", "A.jar" >>, FALSE, << >>) >>, TRUE) }

(* ------------------------------- paths --------------------------------- *)
VersionDirOf(dir) == dir \o << "/", "versions", "/" >> \o version
VersionDir == VersionDirOf(programDirectory)
MarkerOf(dir) == VersionDirOf(dir) \o << "/" >> \o version \o << ".config" >>
MarkerPath == MarkerOf(programDirectory)
VersionJsonPath == VersionDir \o << "/" >> \o version \o << ".json" >>
VersionJarPath == VersionDir \o << "/" >> \o version \o << ".jar" >>
ManifestCachePath_InVersions(dir) == dir \o << "/", "versions", "/", "manifest_cache.json" >>

\* line 52
ManifestCachePath(dir) == dir \o << "/", "manifest_cache.json" >>
AlsoftPath == Home \o << "/", ".config", "/", "alsoft.conf" >>
libBase == VersionDir \o << "/", "libraries", "/" >>

\* GetProgramDirectory: the executable's directory, or the empty string when it
\* cannot be resolved (never empty on windows)
GetProgramDirectory ==
    IF os = "windows" THEN { << "C:", "\\", "ql" >> }
    ELSE { << "/", "ql" >>, << >> }

(* ----------------------------- main: start ----------------------------- *)
Init ==
    /\ os \in { "linux", "windows" }
    /\ server \in [manifest : Manifests, descriptor : Descriptors,
                   assetIndex : AssetIndexes]
    \* the program root is empty, and the home directory has no .config yet
    /\ world = [dirs |-> UNION { Prefixes(Resolve(d)) : d \in GetProgramDirectory }
                         \cup (IF os = "linux" THEN Prefixes(Resolve(Home)) ELSE { }),
                files |-> << >>, json |-> << >>, err |-> FALSE, log |-> << >>]
    /\ run = 1
    /\ lastExit = "none"
    /\ failures = 0
    /\ pc = "start"
    /\ crash = "none"
    /\ nullDeref = "none"
    /\ programDirectory = << >>
    /\ fetchOk = FALSE
    /\ document = NullManifest
    /\ versionJson = NullVersionJson
    /\ assetJson = NullAssetJson
    /\ latestVersion = << >>
    /\ i = 1
    /\ allowed = TRUE
    /\ classPath = << >>
    /\ gameArgs = << >>
    /\ cmdJava = << >>
    /\ finalCommand = << >>
    /\ child = "none"
    /\ call = [input |-> << >>, placeholder |-> "", replacement |-> << >>,
               returned |-> FALSE, output |-> << >>]

\* control moves on, unless a file system call threw
Goto(next) == pc' = IF world'.err THEN "crashed" ELSE next

\* dereferencing a field of a Null document: the assertion aborts the
\* run, or the null string pointer that comes back faults it
Dereference(doc) ==
    /\ nullDeref' = doc
    /\ crash' \in { "assert", "fault" }
    /\ pc' = "crashed"

Running == /\ crash' = IF world'.err THEN "exception" ELSE crash
           /\ UNCHANGED nullDeref

\* the outcomes of one request: CURLE_OK, or a transport failure
Transport == IF failures < MaxFailures THEN BOOLEAN ELSE { TRUE }
Count(ok) == failures' = IF ok THEN failures ELSE failures + 1

\* lines 43-53
FetchManifest ==
    /\ pc = "start"
    /\ \E ok \in Transport, dir \in GetProgramDirectory :
         LET w1 == curlGet(world, ManifestUrl) IN
         /\ Count(ok)
         /\ fetchOk' = ok
         /\ programDirectory' = dir
         /\ document' = IF ok THEN server.manifest ELSE NullManifest
         /\ world' = IF ok THEN saveJsonToFile(w1, server.manifest, ManifestCachePath(dir))
                     ELSE w1
    /\ Goto("alsoft")
    /\ Running
    /\ UNCHANGED << call, os, server, run, lastExit, versionJson, assetJson, latestVersion, i,
                    allowed, classPath, launch >>

\* lines 55-57
CreateAlsoftConf ==
    /\ pc = "alsoft"
    /\ world' = IF os = "linux" THEN CreateFileIfNotExists(world, AlsoftPath) ELSE world
    /\ Goto("latest")
    /\ Running
    /\ UNCHANGED << call, os, server, run, lastExit, failures, programDirectory, fetchOk,
                    document, versionJson, assetJson, latestVersion, i, allowed, classPath, launch
                    >>

\* line 58
ReadLatestVersion ==
    /\ pc = "latest"
    /\ IF document.null
       THEN /\ Dereference("document")
            /\ UNCHANGED << world, latestVersion >>
       ELSE /\ latestVersion' = document.latest
            /\ world' = [world EXCEPT !.log = Append(@, Event("read", << "document" >>))]
            /\ Goto("dirs")
            /\ Running
    /\ UNCHANGED << call, os, server, run, lastExit, failures, programDirectory, fetchOk,
                    document, versionJson, assetJson, i, allowed, classPath, launch >>

\* line 61: !programDirectory.empty()
NotEmpty_Always(dir) == TRUE
NotEmpty(dir) == dir # << >>

\* lines 61-69
SetupDirectories ==
    /\ pc = "dirs"
    /\ IF NotEmpty(programDirectory)
       THEN /\ world' =
                 CreateDirectoryIfNotExists(
                   CreateDirectoryIfNotExists(
                     CreateDirectoryIfNotExists(
                       CreateDirectoryIfNotExists(world,
                         programDirectory \o << "/", "profiles" >>),
                       programDirectory \o << "/", "assets", "/", "indexes" >>),
                     programDirectory \o << "/", "assets", "/", "objects" >>),
                   programDirectory \o << "/", "versions" >>)
            /\ Goto("versiondirs")
       ELSE /\ world' = world
            /\ pc' = "aborted"
    /\ Running
    /\ UNCHANGED << call, os, server, run, lastExit, failures, programDirectory, fetchOk,
                    document, versionJson, assetJson, latestVersion, i, allowed, classPath, launch
                    >>

\* lines 73-83
VersionDirectories ==
    /\ pc = "versiondirs"
    /\ world' =
         CreateDirectoryIfNotExists(
           CreateDirectoryIfNotExists(
             CreateDirectoryIfNotExists(world, VersionDir),
             VersionDir \o << "/", "libraries" >>),
           programDirectory \o << "/", "profiles", "/" >> \o version)
    /\ Goto("marker")
    /\ Running
    /\ UNCHANGED << call, os, server, run, lastExit, failures, programDirectory, fetchOk,
                    document, versionJson, assetJson, latestVersion, i, allowed, classPath, launch
                    >>

\* lines 85-88: the marker file is there, the cached descriptor is read back
LoadCachedDescriptor ==
    /\ pc = "marker"
    /\ FileExists(world, MarkerPath)
    /\ versionJson' = ParseFile(world, VersionJsonPath, NullVersionJson)
    /\ pc' = "classpath"
    /\ UNCHANGED << call, os, server, world, run, lastExit, failures, crash, nullDeref,
                    programDirectory, fetchOk, document, assetJson, latestVersion, i, allowed,
                    classPath, launch >>

\* lines 89-92
CreateMarker ==
    /\ pc = "marker"
    /\ ~FileExists(world, MarkerPath)
    /\ world' = CreateFileIfNotExists(world, MarkerPath)
    /\ Goto("resolve")
    /\ Running
    /\ UNCHANGED << call, os, server, run, lastExit, failures, programDirectory, fetchOk,
                    document, versionJson, assetJson, latestVersion, i, allowed, classPath, launch
                    >>

\* the first index whose id is `id`, 0 when there is none
RECURSIVE FindVersion(_, _, _)
FindVersion(versions, id, k) ==
    IF k > Len(versions) THEN 0
    ELSE IF versions[k].id = id THEN k
    ELSE FindVersion(versions, id, k + 1)

\* what an endpoint answers
Serve(url) == IF url = DescriptorUrl THEN server.descriptor ELSE NullVersionJson

\* lines 95-102
ResolveVersion ==
    /\ pc = "resolve"
    /\ LET k == FindVersion(document.versions, version, 1) IN
       IF k = 0
       THEN /\ world' = [world EXCEPT !.log = Append(@, Event("read", << "document" >>))]
            /\ UNCHANGED << versionJson, failures >>
       ELSE \E ok \in Transport :
            /\ Count(ok)
            /\ world' = curlGet([world EXCEPT !.log = Append(@, Event("read", << "document" >>))],
                                document.versions[k].url)
            /\ versionJson' = IF ok THEN Serve(document.versions[k].url) ELSE NullVersionJson
    /\ Goto("assetindex")
    /\ Running
    /\ UNCHANGED << call, os, server, run, lastExit, programDirectory, fetchOk, document,
                    assetJson, latestVersion, i, allowed, classPath, launch >>

\* lines 103-105
FetchAssetIndex ==
    /\ pc = "assetindex"
    /\ IF versionJson.null
       THEN /\ Dereference("versionJson")
            /\ UNCHANGED << world, assetJson, failures >>
       ELSE \E ok \in Transport :
            /\ Count(ok)
            /\ assetJson' = IF ok THEN server.assetIndex ELSE NullAssetJson
            /\ world' = saveJsonToFile(curlGet(world, versionJson.assetIndex.url), assetJson',
                          programDirectory \o << "/", "assets", "/", "indexes", "/" >>
                            \o versionJson.assets \o << ".json" >>)
            /\ Goto("savedescriptor")
            /\ Running
    /\ UNCHANGED << call, os, server, run, lastExit, programDirectory, fetchOk, document,
                    versionJson, latestVersion, i, allowed, classPath, launch >>

\* line 106
SaveDescriptor ==
    /\ pc = "savedescriptor"
    /\ world' = saveJsonToFile(world, versionJson, VersionJsonPath)
    /\ Goto("logging")
    /\ Running
    /\ UNCHANGED << call, os, server, run, lastExit, failures, programDirectory, fetchOk,
                    document, versionJson, assetJson, latestVersion, i, allowed, classPath, launch
                    >>

\* the bytes a request hands back: the empty string on failure
Body(ok) == IF ok THEN "bytes" ELSE ""

\* lines 108-111
FetchLoggingConfig ==
    /\ pc = "logging"
    /\ \E ok \in Transport :
         LET tempPath == VersionDir \o << "/", "logging-" >> \o versionJson.logging.id IN
         /\ Count(ok)
         /\ world' = saveStringToFile(
                       curlGet(CreateFileIfNotExists(world, tempPath), versionJson.logging.url),
                       Body(ok), tempPath)
    /\ Goto("clientjar")
    /\ Running
    /\ UNCHANGED << call, os, server, run, lastExit, programDirectory, fetchOk, document,
                    versionJson, assetJson, latestVersion, i, allowed, classPath, launch >>

\* line 113
FetchClientJar ==
    /\ pc = "clientjar"
    /\ \E ok \in Transport :
         /\ Count(ok)
         /\ world' = saveStringToFile(curlGet(world, versionJson.clientUrl), Body(ok),
                                      VersionJarPath)
    /\ i' = 1
    /\ Goto("libraries")
    /\ Running
    /\ UNCHANGED << call, os, server, run, lastExit, programDirectory, fetchOk, document,
                    versionJson, assetJson, latestVersion, allowed, classPath, launch >>

(* --------------------------- the library pass -------------------------- *)
RECURSIVE DropFilename(_)
DropFilename(s) ==
    IF s = << >> \/ IsSeparator(s[Len(s)]) THEN s
    ELSE DropFilename(SubSeq(s, 1, Len(s) - 1))

RECURSIVE DropSeparators(_)
DropSeparators(s) ==
    IF Len(s) <= 1 \/ ~IsSeparator(s[Len(s)]) THEN s
    ELSE DropSeparators(SubSeq(s, 1, Len(s) - 1))

\* std::filesystem::path::parent_path
parent_path(s) == DropSeparators(DropFilename(s))

libName(lib) == libBase \o lib.path

Evaluated_NoExistenceCheck(w, lib) ==
    libName(lib) # libBase \o << "/", "null" >>

\* line 130: the library is neither the sentinel nor on disk
Evaluated(w, lib) ==
    libName(lib) # libBase \o << "/", "null" >> /\ ~FileExists(w, libName(lib))

Allowed_AnyRule(lib) ==
    IF ~lib.hasRules THEN TRUE
    ELSE \E k \in DOMAIN lib.rules : lib.rules[k] = os

\* lines 131-136
Allowed(lib) ==
    IF ~lib.hasRules THEN TRUE
    ELSE lib.rules[1] = os

Download_Retry(w, lib, ok) ==
    LET w1 == CreateFileIfNotExists(
                CreateDirectoryIfNotExists(w, parent_path(libName(lib))), libName(lib))
    IN  saveStringToFile(
          (IF ok THEN curlGet(w1, lib.url) ELSE curlGet(curlGet(w1, lib.url), lib.url)),
          Body(ok), libName(lib))

Download_NothingOnFailure(w, lib, ok) ==
    IF ok
    THEN saveStringToFile(
           curlGet(
             CreateFileIfNotExists(
               CreateDirectoryIfNotExists(w, parent_path(libName(lib))),
               libName(lib)),
             lib.url),
           Body(ok), libName(lib))
    ELSE curlGet(w, lib.url)

Download_FetchFirst(w, lib, ok) ==
    saveStringToFile(
      CreateFileIfNotExists(
        CreateDirectoryIfNotExists(curlGet(w, lib.url), parent_path(libName(lib))),
        libName(lib)),
      Body(ok), libName(lib))

\* lines 138-140
Download(w, lib, ok) ==
    saveStringToFile(
      curlGet(
        CreateFileIfNotExists(
          CreateDirectoryIfNotExists(w, parent_path(libName(lib))),
          libName(lib)),
        lib.url),
      Body(ok), libName(lib))

\* lines 117-144, one iteration
LibraryStep ==
    /\ pc = "libraries"
    /\ i <= Len(versionJson.libraries)
    /\ LET lib == versionJson.libraries[i]
           w1 == [world EXCEPT !.log = Append(@, Event("cout", libName(lib)))]
       IN  IF Evaluated(world, lib)
           THEN /\ allowed' = Allowed(lib)
                /\ IF allowed'
                   THEN \E ok \in Transport :
                          /\ Count(ok)
                          /\ world' = Download(w1, lib, ok)
                   ELSE /\ world' = w1
                        /\ UNCHANGED failures
           ELSE /\ allowed' = TRUE
                /\ world' = w1
                /\ UNCHANGED failures
    /\ i' = i + 1
    /\ Goto("libraries")
    /\ Running
    /\ UNCHANGED << call, os, server, run, lastExit, programDirectory, fetchOk, document,
                    versionJson, assetJson, latestVersion, classPath, launch >>

(* ---------------------------- the asset pass --------------------------- *)
objFolder(objHash) ==
    programDirectory \o << "/", "assets", "/", "objects", "/" >> \o SubSeq(objHash, 1, 1)
      \o << "/" >>

objFile(objHash) == objFolder(objHash) \o objHash

objUrl(objHash) == ResourcesUrl \o SubSeq(objHash, 1, 1) \o << "/" >> \o objHash

\* lines 149-159
RECURSIVE AssetLoop(_, _, _)
AssetLoop(w, objects, oks) ==
    IF objects = << >> THEN w
    ELSE LET objHash == Head(objects).hash
             w1 == CreateFileIfNotExists(
                     CreateDirectoryIfNotExists(w, objFolder(objHash)), objFile(objHash))
         IN  AssetLoop(saveStringToFile(curlGet(w1, objUrl(objHash)), Body(Head(oks)),
                                        objFile(objHash)),
                       Tail(objects), Tail(oks))

AssetsMissing_Always(w) == TRUE

\* line 145
AssetsMissing(w) == ~DirectoryExists(w, programDirectory \o << "/", "assets" >>)

Failed(oks) == Cardinality({ k \in DOMAIN oks : ~oks[k] })

\* lines 145-160
AssetPass ==
    /\ pc = "libraries"
    /\ i > Len(versionJson.libraries)
    /\ IF AssetsMissing(world)
       THEN IF assetJson.null
            THEN /\ Dereference("assetJson")
                 /\ world' = CreateDirectoryIfNotExists(world,
                                programDirectory \o << "/", "assets" >>)
                 /\ UNCHANGED failures
            ELSE \E oks \in [1..Len(assetJson.objects) -> BOOLEAN] :
                 /\ failures + Failed(oks) <= MaxFailures
                 /\ failures' = failures + Failed(oks)
                 /\ world' = AssetLoop(
                               CreateDirectoryIfNotExists(world,
                                 programDirectory \o << "/", "assets" >>),
                               assetJson.objects, oks)
                 /\ Goto("classpath")
                 /\ Running
       ELSE /\ pc' = "classpath"
            /\ UNCHANGED << world, failures, crash, nullDeref >>
    /\ UNCHANGED << call, os, server, run, lastExit, programDirectory, fetchOk, document,
                    versionJson, assetJson, latestVersion, i, allowed, classPath, launch >>

(* ---------------------------- the classpath ---------------------------- *)
PathSeparator == IF os = "windows" THEN ";" ELSE ":"

fullPath(lib) == VersionDir \o << "/" >> \o (<< "libraries", "/" >> \o lib.path)

RECURSIVE LibraryClassPath_NoExistenceCheck(_, _)
LibraryClassPath_NoExistenceCheck(w, libraries) ==
    IF libraries = << >> THEN << >>
    ELSE escapeColon(backslashesToForwardslashes(fullPath(Head(libraries))))
         \o << PathSeparator >> \o LibraryClassPath_NoExistenceCheck(w, Tail(libraries))

\* lines 165-177
RECURSIVE LibraryClassPath(_, _)
LibraryClassPath(w, libraries) ==
    IF libraries = << >> THEN << >>
    ELSE (IF Exists(w, fullPath(Head(libraries)))
          THEN escapeColon(backslashesToForwardslashes(fullPath(Head(libraries))))
               \o << PathSeparator >>
          ELSE << >>)
         \o LibraryClassPath(w, Tail(libraries))

\* lines 163-179
BuildClassPath ==
    /\ pc = "classpath"
    /\ IF versionJson.null
       THEN /\ Dereference("versionJson")
            /\ UNCHANGED classPath
       ELSE /\ classPath' = << " -cp \"" >>
                            \o LibraryClassPath(world, versionJson.libraries)
                            \o escapeColon(backslashesToForwardslashes(VersionJarPath))
                            \o << "\" " >>
            /\ pc' = "arguments"
            /\ UNCHANGED << crash, nullDeref >>
    /\ UNCHANGED << call, os, server, world, run, lastExit, failures, programDirectory, fetchOk,
                    document, versionJson, assetJson, latestVersion, i, allowed, launch >>

(* ------------------------- the game arguments -------------------------- *)
Digits == { "0", "1", "2", "3", "4", "5", "6", "7", "8", "9" }

\* the replacement of std::regex_replace is a format string: $$ is a dollar,
\* $& the match, $` and $' the text before and after it, $n or $nn a capture
\* group (the pattern has none, so only group 0, the match, is not empty); any
\* other $ stands for itself
RECURSIVE Format(_, _, _, _)
Format(fmt, match, prefix, suffix) ==
    IF fmt = << >> THEN << >>
    ELSE IF Head(fmt) = "$" /\ Len(fmt) >= 2 /\ fmt[2] \in { "$", "&", "`", "'" }
    THEN (CASE fmt[2] = "$" -> << "$" >>
            [] fmt[2] = "&" -> match
            [] fmt[2] = "`" -> prefix
            [] fmt[2] = "'" -> suffix)
         \o Format(SubSeq(fmt, 3, Len(fmt)), match, prefix, suffix)
    ELSE IF Head(fmt) = "$" /\ Len(fmt) >= 3 /\ fmt[2] \in Digits /\ fmt[3] \in Digits
    THEN (IF fmt[2] = "0" /\ fmt[3] = "0" THEN match ELSE << >>)
         \o Format(SubSeq(fmt, 4, Len(fmt)), match, prefix, suffix)
    ELSE IF Head(fmt) = "$" /\ Len(fmt) >= 2 /\ fmt[2] \in Digits
    THEN (IF fmt[2] = "0" THEN match ELSE << >>)
         \o Format(SubSeq(fmt, 3, Len(fmt)), match, prefix, suffix)
    ELSE << Head(fmt) >> \o Format(Tail(fmt), match, prefix, suffix)

Token(placeholder) == << "$", "{", placeholder, "}" >>

RECURSIVE RegexReplace(_, _, _, _)
RegexReplace(input, k, placeholder, replacement) ==
    IF k > Len(input) THEN << >>
    ELSE IF k + 3 <= Len(input) /\ SubSeq(input, k, k + 3) = Token(placeholder)
    THEN Format(replacement, Token(placeholder), SubSeq(input, 1, k - 1),
                SubSeq(input, k + 4, Len(input)))
         \o RegexReplace(input, k + 4, placeholder, replacement)
    ELSE << input[k] >> \o RegexReplace(input, k + 1, placeholder, replacement)

\* lines 458-461
replacePlaceholders(input, placeholder, replacement) ==
    RegexReplace(input, 1, placeholder, replacement)

username == << "humanitymanu" >>

RECURSIVE GameArguments_EveryEntry(_)
GameArguments_EveryEntry(game) ==
    IF game = << >> THEN << >>
    ELSE Head(game).string \o << " " >> \o GameArguments_EveryEntry(Tail(game))

\* lines 187-191
RECURSIVE GameArguments(_)
GameArguments(game) ==
    IF game = << >> THEN << >>
    ELSE (IF ~Head(game).isObject THEN Head(game).string \o << " " >> ELSE << >>)
         \o GameArguments(Tail(game))

\* lines 181-193
Template(json) ==
    IF json.hasMinecraftArguments THEN json.minecraftArguments
    ELSE IF json.hasArguments THEN << " " >> \o GameArguments(json.arguments.game)
    ELSE << " " >>

\* lines 194-204
Substitute(template, json) ==
    LET quote == << "\"" >>
        dir == backslashesToForwardslashes(programDirectory)
        g1 == replacePlaceholders(template, "auth_player_name", username)
        g2 == replacePlaceholders(g1, "version_name", version)
        g3 == replacePlaceholders(g2, "game_directory",
                quote \o dir \o << "/", "profiles", "/" >> \o version \o quote)
        g4 == replacePlaceholders(g3, "assets_root",
                quote \o dir \o << "/", "assets", "/" >> \o quote)
        g5 == replacePlaceholders(g4, "auth_xuid", << "0" >>)
        g6 == replacePlaceholders(g5, "auth_uuid", << "0" >>)
        g7 == replacePlaceholders(g6, "auth_access_token", << "0" >>)
        g8 == replacePlaceholders(g7, "clientid", << "0" >>)
        g9 == replacePlaceholders(g8, "user_type", << "legacy" >>)
        g10 == replacePlaceholders(g9, "version_type", << "release" >>)
    IN  replacePlaceholders(g10, "assets_index_name", json.assetIndex.id)

\* lines 181-204
BuildGameArgs ==
    /\ pc = "arguments"
    /\ gameArgs' = Substitute(Template(versionJson), versionJson)
    /\ pc' = "java"
    /\ UNCHANGED << call, os, server, world, run, lastExit, failures, crash, nullDeref,
                    programDirectory, fetchOk, document, versionJson, assetJson, latestVersion, i,
                    allowed, classPath, cmdJava, finalCommand, child >>

(* ------------------------------ the launch ----------------------------- *)
\* getJavaExecutablePath: the registry's JavaHome on windows, the output of
\* `which java` elsewhere; the empty string when there is no java
getJavaExecutablePath ==
    IF os = "windows"
    THEN { << "C:", "\\", "java", "\\", "bin", "\\", "java.exe" >>, << >> }
    ELSE { << "/", "usr", "/", "bin", "/", "java", "\n" >>, << >> }

\* what the user may type as the path to java
TypedJava == { << "java" >> }

\* lines 206-216: std::cin >> javaManual, then the path when it is 0
SelectJava ==
    /\ pc = "java"
    /\ \E javaPath \in getJavaExecutablePath, javaManual \in BOOLEAN, typed \in TypedJava :
         cmdJava' = IF javaManual THEN javaPath ELSE typed
    /\ pc' = "command"
    /\ UNCHANGED << call, os, server, world, run, lastExit, failures, crash, nullDeref,
                    programDirectory, fetchOk, document, versionJson, assetJson, latestVersion, i,
                    allowed, classPath, gameArgs, finalCommand, child >>

\* lines 220-229
cmdOpts(json) ==
    << " -Xss1M -Djava.library.path=" >> \o version \o << "-natives",
       " -Dminecraft.launcher.brand=minecraft-launcher",
       " -Dminecraft.launcher.version=2.1.1349 " >>
    \o replacePlaceholders(json.logging.argument, "path",
         << "\"" >> \o VersionDir \o << "/", "logging-" >> \o json.logging.id \o << "\"" >>)
    \o << " -Xmx2G -XX:+UnlockExperimentalVMOptions -XX:+UseG1GC -XX:G1NewSizePercent=20 -XX:G1ReservePercent=20 -XX:MaxGCPauseMillis=50 -XX:G1HeapRegionSize=32M" >>

\* lines 220-232
AssembleCommand ==
    /\ pc = "command"
    /\ finalCommand' = cmdJava \o cmdOpts(versionJson) \o classPath \o versionJson.mainClass
                       \o gameArgs
    /\ pc' = "spawn"
    /\ UNCHANGED << call, os, server, world, run, lastExit, failures, crash, nullDeref,
                    programDirectory, fetchOk, document, versionJson, assetJson, latestVersion, i,
                    allowed, classPath, gameArgs, cmdJava, child >>

\* lines 233-245 and 289-300: CreateProcess or popen starts the child, or fails
SpawnChild ==
    /\ pc = "spawn"
    /\ \E started \in BOOLEAN :
         /\ child' = IF started THEN "running" ELSE "failed"
         /\ pc' = IF started THEN "wait" ELSE "shutdown"
    /\ UNCHANGED << call, os, server, world, run, lastExit, failures, crash, nullDeref,
                    programDirectory, fetchOk, document, versionJson, assetJson, latestVersion, i,
                    allowed, classPath, gameArgs, cmdJava, finalCommand >>

\* the child process terminates
ChildExits ==
    /\ child = "running"
    /\ child' = "exited"
    /\ UNCHANGED << call, os, server, world, run, lastExit, failures, pc, crash, nullDeref,
                    programDirectory, fetchOk, document, versionJson, assetJson, latestVersion, i,
                    allowed, classPath, gameArgs, cmdJava, finalCommand >>

Terminated_Always(process) == TRUE

\* what WaitForSingleObject (line 247) and pclose (line 310) wait for
Terminated(process) == process = "exited"

\* lines 246-256 and 302-313: WaitForSingleObject, or fgets until the pipe
\* closes and pclose, return once the child has terminated
WaitChild ==
    /\ pc = "wait"
    /\ Terminated(child)
    /\ pc' = "shutdown"
    /\ UNCHANGED << call, os, server, world, run, lastExit, failures, crash, nullDeref,
                    programDirectory, fetchOk, document, versionJson, assetJson, latestVersion, i,
                    allowed, classPath, gameArgs, cmdJava, finalCommand, child >>

\* lines 257-259
Shutdown ==
    /\ pc = "shutdown"
    /\ world' = [world EXCEPT !.log = Append(@, Event("cout", << "shutting game down...\n" >>))]
    /\ pc' = "done"
    /\ UNCHANGED << call, os, server, run, lastExit, failures, crash, nullDeref, programDirectory,
                    fetchOk, document, versionJson, assetJson, latestVersion, i, allowed,
                    classPath, gameArgs, cmdJava, finalCommand, child >>

\* main() is started again on the tree the last run left; the user may have
\* removed the version's marker file in between
Rerun ==
    /\ pc \in { "done", "crashed", "aborted" }
    /\ run < MaxRuns
    /\ run' = run + 1
    /\ lastExit' = pc
    /\ \E removed \in BOOLEAN :
         world' = [world EXCEPT
                     !.files = IF removed
                               THEN [q \in DOMAIN @ \ { Resolve(MarkerOf(d)) :
                                                          d \in GetProgramDirectory } |-> @[q]]
                               ELSE @,
                     !.err = FALSE, !.log = << >>]
    /\ pc' = "start"
    /\ crash' = "none"
    /\ nullDeref' = "none"
    /\ programDirectory' = << >>
    /\ fetchOk' = FALSE
    /\ document' = NullManifest
    /\ versionJson' = NullVersionJson
    /\ assetJson' = NullAssetJson
    /\ latestVersion' = << >>
    /\ i' = 1
    /\ allowed' = TRUE
    /\ classPath' = << >>
    /\ gameArgs' = << >>
    /\ cmdJava' = << >>
    /\ finalCommand' = << >>
    /\ child' = "none"
    /\ UNCHANGED << call, os, server, failures >>

Next == FetchManifest \/ CreateAlsoftConf \/ ReadLatestVersion \/ SetupDirectories
        \/ VersionDirectories \/ LoadCachedDescriptor \/ CreateMarker \/ ResolveVersion
        \/ FetchAssetIndex \/ SaveDescriptor \/ FetchLoggingConfig \/ FetchClientJar
        \/ LibraryStep \/ AssetPass \/ BuildClassPath \/ BuildGameArgs \/ SelectJava
        \/ AssembleCommand \/ SpawnChild \/ ChildExits \/ WaitChild \/ Shutdown \/ Rerun

Spec == Init /\ [][Next]_vars

(* ----------------- replacePlaceholders, called on its own ---------------- *)
\* inputs with the token once, twice, not at all, with another key's token,
\* and with an unfinished token
Inputs ==
    { << "--username", " ", "$", "{", "auth_player_name", "}" >>,
      << "$", "{", "auth_player_name", "}", " ", "$", "{", "auth_player_name", "}" >>,
      << "--demo" >>,
      << "--version", " ", "$", "{", "version_name", "}", " ", "--username", " ",
         "$", "{", "auth_player_name", "}" >>,
      << "$", "{", "auth_player_name" >> }
Placeholders == { "auth_player_name", "version_name" }
\* replacements without a dollar, and with one before each kind of character
Replacements ==
    { << "alice" >>, << >>, << "a", "$", "b" >>, << "$", "$" >>, << "$", "&" >>,
      << "$", "1", "x" >>, << "x", "$" >> }

CallInit ==
    /\ os = "linux"
    /\ server = [manifest |-> NullManifest, descriptor |-> NullVersionJson,
                 assetIndex |-> NullAssetJson]
    /\ world = [dirs |-> { }, files |-> << >>, json |-> << >>, err |-> FALSE, log |-> << >>]
    /\ run = 1
    /\ lastExit = "none"
    /\ failures = 0
    /\ pc = "call"
    /\ crash = "none"
    /\ nullDeref = "none"
    /\ programDirectory = << >>
    /\ fetchOk = FALSE
    /\ document = NullManifest
    /\ versionJson = NullVersionJson
    /\ assetJson = NullAssetJson
    /\ latestVersion = << >>
    /\ i = 1
    /\ allowed = TRUE
    /\ classPath = << >>
    /\ gameArgs = << >>
    /\ cmdJava = << >>
    /\ finalCommand = << >>
    /\ child = "none"
    /\ call \in [input : Inputs, placeholder : Placeholders, replacement : Replacements,
                  returned : { FALSE }, output : { << >> }]

\* lines 458-461
CallReplacePlaceholders ==
    /\ pc = "call"
    /\ ~call.returned
    /\ call' = [call EXCEPT !.returned = TRUE,
                            !.output = replacePlaceholders(call.input, call.placeholder,
                                                           call.replacement)]
    /\ UNCHANGED << os, server, world, run, lastExit, failures, pc, crash, nullDeref,
                    programDirectory, fetchOk, document, versionJson, assetJson, latestVersion,
                    i, allowed, classPath, launch >>

CallNext == CallReplacePlaceholders

TemplaterSpec == CallInit /\ [][CallNext]_vars

(* ------------------------------- claims -------------------------------- *)
Libraries == versionJson.libraries
Log == world.log

IsFetch(e, url) == e.op = "fetch" /\ e.arg = url
FetchCount(w, url) == Cardinality({ k \in DOMAIN w.log : IsFetch(w.log[k], url) })
NumFetches(w) == Cardinality({ k \in DOMAIN w.log : w.log[k].op = "fetch" })
Last(seq) == seq[Len(seq)]

\* C1: when the library pass, or the asset pass, reaches an item whose target
\* path is a regular file at that moment, the step that handles the item issues
\* no fetch for the item's URL.
C1_NoFetchWhenPresent ==
    [][ /\ (pc = "libraries" /\ i <= Len(Libraries)
              /\ FileExists(world, libBase \o Libraries[i].path))
           => FetchCount(world', Libraries[i].url) = FetchCount(world, Libraries[i].url)
        /\ (pc = "libraries" /\ i > Len(Libraries))
           => \A k \in DOMAIN assetJson.objects :
                FileExists(world, objFile(assetJson.objects[k].hash))
                => FetchCount(world', objUrl(assetJson.objects[k].hash))
                   = FetchCount(world, objUrl(assetJson.objects[k].hash)) ]_vars

\* C1 witness: the library pass has just passed over a library that would have
\* been downloaded (not the sentinel, allowed) had its file not been on disk
C1_Witness ==
    /\ pc = "libraries" /\ i > 1
    /\ LET lib == Libraries[i - 1]
       IN /\ libBase \o lib.path # libBase \o << "/", "null" >>
          /\ (~lib.hasRules \/ lib.rules[1] = os)
          /\ FileExists(world, libBase \o lib.path)
          /\ Last(Log).op = "cout" /\ Last(Log).arg = libBase \o lib.path

LibraryUrls == { l.url : l \in LibraryPool }
AssetUrls == { objUrl(o.hash) : o \in UNION { { x.objects[k] : k \in DOMAIN x.objects } :
                                               x \in AssetIndexes } }
MarkerCreations ==
    LET marker == Resolve(MarkerPath)
    IN  { j \in DOMAIN Log : Log[j].op = "create" /\ Log[j].arg = marker }

\* C2 as stated: a run that follows a complete run issues no fetch at all.
C2_Original == lastExit = "done" => NumFetches(world) = 0

\* C2 amended: a run that follows a complete run issues no fetch for any library
\* or asset object; it fetches the manifest, and fetches anything else (the
\* descriptor, the asset index, the logging configuration, the client jar) only
\* after it found the marker file missing and created it.
C2_RerunFetchesNoItem ==
    lastExit = "done" =>
      \A k \in DOMAIN Log :
        Log[k].op = "fetch" =>
          /\ Log[k].arg \notin LibraryUrls \cup AssetUrls
          /\ Log[k].arg # ManifestUrl => \E j \in MarkerCreations : j < k

\* C2 witness: a second complete run that found the marker file removed
C2_Witness ==
    /\ lastExit = "done" /\ pc = "done"
    /\ MarkerCreations # { }
    /\ Len(Libraries) > 0

\* C3 as stated: an evaluated library with rules is allowed when any of its
\* rules names the current platform.
C3_Original ==
    [][ (pc = "libraries" /\ i <= Len(Libraries)
           /\ libBase \o Libraries[i].path # libBase \o << "/", "null" >>
           /\ ~FileExists(world, libBase \o Libraries[i].path))
        => allowed' = (~Libraries[i].hasRules
                       \/ \E k \in DOMAIN Libraries[i].rules : Libraries[i].rules[k] = os)
      ]_vars

\* C3 amended: an evaluated library is allowed when it has no rules, and when it
\* has rules exactly when the first rule names the current platform; the step
\* fetches the library's URL exactly when it is allowed.
C3_FirstRuleDecides ==
    [][ (pc = "libraries" /\ i <= Len(Libraries)
           /\ libBase \o Libraries[i].path # libBase \o << "/", "null" >>
           /\ ~FileExists(world, libBase \o Libraries[i].path))
        => /\ allowed' = (~Libraries[i].hasRules \/ Libraries[i].rules[1] = os)
           /\ allowed' <=> (FetchCount(world', Libraries[i].url)
                            = FetchCount(world, Libraries[i].url) + 1)
           /\ NumFetches(world') = NumFetches(world) + (IF allowed' THEN 1 ELSE 0)
      ]_vars

\* C3 witness: a library whose second rule names the platform was evaluated and
\* found not allowed
C3_Witness ==
    /\ pc = "libraries" /\ i > 1 /\ ~allowed
    /\ Len(Libraries[i - 1].rules) = 2 /\ Libraries[i - 1].rules[2] = os

Contains(seq, part) ==
    \E k \in 0..(Len(seq) - Len(part)) : SubSeq(seq, k + 1, k + Len(part)) = part

\* C4 as stated: from an empty program root, with the version listed, one
\* unconditional library and one asset object, a complete run leaves the library
\* file, the asset index file and the asset object file on disk, and the
\* command's classpath clause holds the library path, the separator and the jar.
C4_Original ==
    (/\ pc = "done" /\ run = 1
     /\ Len(Libraries) = 1 /\ ~Libraries[1].hasRules /\ Libraries[1].path \in LibraryPaths
     /\ Len(server.assetIndex.objects) = 1)
    => /\ FileExists(world, VersionDir \o << "/", "libraries", "/" >> \o Libraries[1].path)
       /\ FileExists(world, programDirectory \o << "/", "assets", "/", "indexes", "/" >>
                              \o versionJson.assets \o << ".json" >>)
       /\ FileExists(world, programDirectory \o << "/", "assets", "/", "objects", "/",
                              "aa", "/", "aa", "11" >>)
       /\ Contains(finalCommand,
            backslashesToForwardslashes(VersionDir \o << "/", "libraries", "/" >>
                                        \o Libraries[1].path)
            \o << IF os = "windows" THEN ";" ELSE ":" >>
            \o backslashesToForwardslashes(VersionJarPath))

Unlisted == \A k \in DOMAIN server.manifest.versions :
              server.manifest.versions[k].id # version

\* C5 as stated: with the requested version absent from the manifest the run
\* does not crash and dereferences no field of the unresolved descriptor.
C5_Original ==
    (Unlisted /\ fetchOk) => (crash = "none" /\ nullDeref # "versionJson")

\* C6 as stated: a library whose declared path is "null" is skipped: no fetch
\* is issued for it and no file is created for it.
C6_Original ==
    \A k \in DOMAIN Log :
      /\ ~(Log[k].op = "fetch"
           /\ Log[k].arg = << "https:", "/", "/", "libraries", "/", "null" >>)
      /\ ~(Log[k].op = "create"
           /\ Log[k].arg = Resolve(libBase \o << "null" >>))

\* the classpath has just been built
ClassPathBuilt == pc = "arguments"

RECURSIVE Join(_)
Join(parts) == IF parts = << >> THEN << >> ELSE Head(parts) \o Join(Tail(parts))

OnDisk(lib) == FileExists(world, VersionDir \o << "/", "libraries", "/" >> \o lib.path)

\* C7: the classpath is, in descriptor order, the path of each library whose
\* artifact file is on disk, each followed by ';' on windows and ':' elsewhere,
\* then the version jar path with no separator after it; a library whose file is
\* not on disk contributes nothing.
C7_ClassPath ==
    ClassPathBuilt =>
      LET present == SelectSeq(Libraries, OnDisk)
          entry(lib) == backslashesToForwardslashes(
                          VersionDir \o << "/", "libraries", "/" >> \o lib.path)
                        \o << IF os = "windows" THEN ";" ELSE ":" >>
          inner == SubSeq(classPath, 2, Len(classPath) - 1)
      IN  /\ inner = Join([k \in 1..Len(present) |-> entry(present[k])])
                     \o backslashesToForwardslashes(
                          VersionDir \o << "/" >> \o version \o << ".jar" >>)
          /\ Last(inner) \notin { ";", ":" }

\* C7 witness: a classpath built from a descriptor whose first library has no
\* file on disk and whose second library has one
C7_Witness ==
    /\ ClassPathBuilt
    /\ Len(Libraries) = 2 /\ ~OnDisk(Libraries[1]) /\ OnDisk(Libraries[2])

\* C8 as stated: every file creation or write of the run comes after the run
\* has created, or found, the file's parent directory.
C8_Original ==
    \A k \in DOMAIN Log :
      Log[k].op \in { "create", "write" } =>
        \E j \in 1..(k - 1) : Log[j].op = "mkdir" /\ Log[j].arg = Parent(Log[k].arg)

\* C9 as stated: when the manifest fetch fails and a cached manifest is on
\* disk, the run goes on to version resolution with a manifest that is not
\* empty.
C9_Original ==
    (/\ pc \notin { "start", "alsoft", "latest" }
     /\ ~fetchOk
     /\ programDirectory # << >>
     /\ FileExists(world, programDirectory \o << "/", "manifest_cache.json" >>))
    => (crash = "none" /\ ~document.null)

\* C10: in every run whose manifest fetch succeeds, every read of a manifest
\* field comes after the manifest was written to manifest_cache.json under the
\* program root, and the file holds the fetched manifest.
C10_SavedBeforeRead ==
    LET reads == { k \in DOMAIN Log : Log[k].op = "read" }
        cache == Resolve(programDirectory \o << "/", "manifest_cache.json" >>)
    IN  (fetchOk /\ reads # { }) =>
          /\ \A k \in reads :
               \E j \in 1..(k - 1) : Log[j].op = "write" /\ Log[j].arg = cache
          /\ cache \in DOMAIN world.files
          /\ world.files[cache] = "json"
          /\ world.json[cache] = server.manifest

\* C10 witness: a second run has read the manifest it fetched
C10_Witness ==
    /\ run = 2 /\ fetchOk /\ pc = "dirs"
    /\ Last(Log).op = "read"

\* C11: in a run whose program directory resolved to the empty string, no
\* directory is created, nothing but the manifest is fetched, no version is
\* resolved and no child is started; the run ends at the check of line 61
\* with the fatal error, unless the manifest fetch failed and the run already
\* stopped at line 58.
C11_AbortsBeforeDirectories ==
    (pc # "start" /\ programDirectory = << >>) =>
      /\ pc \in { "alsoft", "latest", "dirs", "aborted", "crashed" }
      /\ pc = "crashed" => ~fetchOk
      /\ \A k \in DOMAIN Log :
           /\ Log[k].op # "mkdir"
           /\ Log[k].op = "fetch" => Log[k].arg = ManifestUrl
      /\ versionJson = NullVersionJson
      /\ child = "none"

\* C11 witness: the run has aborted at the check, after the manifest was
\* fetched and read
C11_Witness ==
    /\ pc = "aborted" /\ programDirectory = << >>
    /\ fetchOk /\ latestVersion # << >>

Assembled == pc \in { "spawn", "wait", "shutdown", "done" }

\* C12 as stated: the command line is the executable path, the JVM flags,
\* the classpath clause, the main class and the game arguments in this order,
\* and white space separates the main class from the game arguments, for the
\* legacy template as for the structured list.
C12_Original ==
    Assembled =>
      /\ finalCommand = cmdJava \o cmdOpts(versionJson) \o classPath
                        \o versionJson.mainClass \o gameArgs
      /\ LET k == Len(cmdJava \o cmdOpts(versionJson) \o classPath
                      \o versionJson.mainClass)
         IN  k < Len(finalCommand) => finalCommand[k + 1] = " "

\* the input with every ${placeholder} token replaced by the replacement as it
\* is written
RECURSIVE Literal(_, _, _)
Literal(input, placeholder, replacement) ==
    IF input = << >> THEN << >>
    ELSE IF Len(input) >= 4 /\ SubSeq(input, 1, 4) = Token(placeholder)
    THEN replacement \o Literal(SubSeq(input, 5, Len(input)), placeholder, replacement)
    ELSE << Head(input) >> \o Literal(Tail(input), placeholder, replacement)

\* C13 as stated: replacePlaceholders returns the input with every ${key}
\* replaced by the value taken literally and the rest unchanged, for every
\* input and every value, those with a dollar included.
C13_Original ==
    call.returned =>
      call.output = Literal(call.input, call.placeholder, call.replacement)

Fetches == { k \in DOMAIN Log : Log[k].op = "fetch" }
Content(path) == world.files[Resolve(path)]

\* C14: a library step whose fetch fails leaves the empty string in the
\* library's file and moves on to the next library of the list; each library
\* before the current one has been processed (the names printed are theirs, in
\* list order), and within one run no URL is fetched twice.
C14_SoftFail ==
    /\ [][ (pc = "libraries" /\ i <= Len(Libraries) /\ failures' = failures + 1) =>
             /\ FileExists(world', libName(Libraries[i]))
             /\ world'.files[Resolve(libName(Libraries[i]))] = ""
             /\ pc' = "libraries" /\ i' = i + 1 /\ crash' = "none" ]_vars
    /\ [](\A j, k \in Fetches : j # k => Log[j].arg # Log[k].arg)
    /\ [](pc \in { "libraries", "classpath" } =>
            SelectSeq(Log, LAMBDA e : e.op = "cout")
              = [n \in 1..(i - 1) |-> Event("cout", libName(Libraries[n]))])

\* C14 witness: the fetch of the first library failed, and the second library
\* was then downloaded
C14_Witness ==
    /\ pc = "libraries" /\ i = 3
    /\ FileExists(world, libName(Libraries[1])) /\ Content(libName(Libraries[1])) = ""
    /\ FileExists(world, libName(Libraries[2])) /\ Content(libName(Libraries[2])) = "bytes"
    /\ \E j, k \in Fetches : /\ j < k
                              /\ Log[j].arg = Libraries[1].url
                              /\ Log[k].arg = Libraries[2].url

\* the descriptor in use was read back from the cache, not fetched
FromCache == \A k \in Fetches : Log[k].arg = ManifestUrl

\* C15: when the classpath has been built, every library of the descriptor
\* that is allowed on this platform and is not the sentinel "null" is a file on
\* disk, whether the descriptor was fetched in this run or read back from the
\* cache.
C15_AllowedLibrariesOnDisk ==
    pc = "arguments" =>
      \A n \in DOMAIN Libraries :
        (Allowed(Libraries[n]) /\ Libraries[n].path # << "null" >>)
          => FileExists(world, libName(Libraries[n]))

\* C15 witness: the classpath has been built from a cached descriptor that
\* lists an allowed library and one that is not allowed
C15_Witness ==
    /\ pc = "arguments" /\ run = 2 /\ FromCache
    /\ \E n, m \in DOMAIN Libraries :
         /\ Allowed(Libraries[n]) /\ Libraries[n].path # << "null" >>
         /\ ~Allowed(Libraries[m])

VersionJsonOf(dir) == VersionDirOf(dir) \o << "/" >> \o version \o << ".json" >>

\* C16 as stated: at the start of every run, if the version's marker file is
\* on disk then so is the cached descriptor, and it holds the descriptor that
\* was resolved for the version.
C16_Original ==
    pc = "start" =>
      \A dir \in GetProgramDirectory \ { << >> } :
        FileExists(world, MarkerOf(dir)) =>
          /\ FileExists(world, VersionJsonOf(dir))
          /\ readFileContents(world, VersionJsonOf(dir)) = "json"
          /\ world.json[Resolve(VersionJsonOf(dir))] = server.descriptor

\* the events the step just taken added to the record
NewEvents == SubSeq(world'.log, Len(world.log) + 1, Len(world'.log))

\* C17: a library step that evaluates a library (not the sentinel, not on
\* disk) and finds its first rule names another platform changes nothing on
\* disk and fetches nothing; for an allowed library the step creates the parent
\* directory, then the empty file, then fetches, then writes the fetched bytes
\* to the file, in this order.
C17_LibraryStepEffects ==
    [][ (pc = "libraries" /\ i <= Len(Libraries) /\ Evaluated(world, Libraries[i])) =>
          LET lib == Libraries[i] IN
          IF lib.hasRules /\ lib.rules[1] # os
          THEN /\ world'.dirs = world.dirs
               /\ world'.files = world.files
               /\ world'.json = world.json
               /\ NewEvents = << Event("cout", libName(lib)) >>
          ELSE /\ NewEvents = << Event("cout", libName(lib)),
                                 Event("mkdir", Resolve(parent_path(libName(lib)))),
                                 Event("create", Resolve(libName(lib))),
                                 Event("fetch", lib.url),
                                 Event("write", Resolve(libName(lib))) >>
               /\ DirectoryExists(world', parent_path(libName(lib)))
               /\ FileExists(world', libName(lib))
               /\ world'.files[Resolve(libName(lib))] \in { "bytes", "" }
               /\ world'.files[Resolve(libName(lib))] = "" <=> failures' # failures ]_vars

\* C17 witness: the pass found its first library not allowed and left no file
\* for it, then downloaded its second library
C17_Witness ==
    /\ pc = "libraries" /\ i = 3
    /\ Libraries[1].hasRules /\ Libraries[1].rules[1] # os
    /\ ~Exists(world, libName(Libraries[1]))
    /\ Content(libName(Libraries[2])) = "bytes"
    /\ Last(Log) = Event("write", Resolve(libName(Libraries[2])))

\* the plain string entries of a game-argument list, in list order
PlainEntries(game) == SelectSeq(game, LAMBDA entry : ~entry.isObject)

\* the strings one after the other, each followed by `separator`
RECURSIVE Concatenation(_, _)
Concatenation(entries, separator) ==
    IF entries = << >> THEN << >>
    ELSE Head(entries).string \o separator \o Concatenation(Tail(entries), separator)

ArgumentsBuilt == pc = "java"

\* C18 as stated: the template is the legacy string when there is one, and
\* otherwise exactly the plain string entries of the structured list one after
\* the other.
C18_Original ==
    ArgumentsBuilt =>
      gameArgs = Substitute(IF versionJson.hasMinecraftArguments
                            THEN versionJson.minecraftArguments
                            ELSE Concatenation(PlainEntries(versionJson.arguments.game),
                                               << >>),
                            versionJson)

\* C18 amended: the template is the legacy string when there is one, and
\* otherwise one space followed by the plain string entries of the structured
\* list in list order, each followed by one space; a conditional entry adds
\* nothing, not even a space.
C18_SpacedPlainEntries ==
    ArgumentsBuilt =>
      gameArgs = Substitute(IF versionJson.hasMinecraftArguments
                            THEN versionJson.minecraftArguments
                            ELSE << " " >>
                                 \o Concatenation(PlainEntries(versionJson.arguments.game),
                                                  << " " >>),
                            versionJson)

\* C18 witness: the arguments were built from a structured list that has a
\* conditional entry
C18_Witness ==
    /\ ArgumentsBuilt
    /\ ~versionJson.hasMinecraftArguments
    /\ \E k \in DOMAIN versionJson.arguments.game : versionJson.arguments.game[k].isObject
    /\ gameArgs = << " ", "--username", " ", "humanitymanu", " ", "--assetIndex", " ", "3",
                     " " >>

\* C19: the run is at or past its shutdown step only when the child it started
\* has exited (or could not be started), and whenever a child has been started
\* the command line, the classpath and the game arguments are complete and the
\* library pass, when this run made one, has gone through the whole list.
C19_BlocksUntilChildExits ==
    /\ pc \in { "shutdown", "done" } => child \in { "exited", "failed" }
    /\ child # "none" =>
         /\ pc \in { "wait", "shutdown", "done" }
         /\ classPath # << >> /\ gameArgs # << >>
         /\ cmdJava \in getJavaExecutablePath \cup TypedJava
         /\ finalCommand = cmdJava \o cmdOpts(versionJson) \o classPath
                           \o versionJson.mainClass \o gameArgs
         /\ FromCache \/ i = Len(Libraries) + 1

\* C19 witness: the run is at its shutdown step after the child it started
\* has exited
C19_Witness ==
    /\ pc = "shutdown" /\ child = "exited"
    /\ ~FromCache /\ Len(Libraries) = 2

====
